---- MODULE Spec2Model ----
(***************************************************************************)
(* Model of the conversation participation-filtering pipeline of the       *)
(* intercom-proxy edge function (src/unnamed/part_009).                     *)
(*                                                                         *)
(*   Spec      the request handler of the conversations endpoint: search,  *)
(*             batched fetches, participation evaluation, response.        *)
(*   SpecEval  the pure function hasAdminParticipation applied to inputs   *)
(*             drawn from bounded sets.                                    *)
(***************************************************************************)
EXTENDS Integers, Sequences, FiniteSets, TLC

VARIABLES
    \* ---- request handler (serve) ----
    pc,                \* position of the handler: start, search, fetching, delay, done
    req,               \* the query parameters of the request
    failing,           \* upstream: ids whose conversation fetch fails during this request
    upstreamSearch,    \* upstream: what the search returns during this request
    searchResponse,    \* status and body text of the search response, once received
    searchesIssued,    \* number of search calls sent upstream so far
    clock,             \* Date.now() - startTime, in ms
    since, before,     \* the search window, epoch seconds
    searchData,        \* body of the search response
    conversationIds,   \* candidate ids after the MAX_CONVERSATIONS cap
    hasMorePages, nextCursor,
    i,                 \* loop variable of the batch loop (0-based offset)
    order,             \* order in which the fetches in flight complete
    inflight,          \* slots of the current batch whose fetch has not settled
    batchResults,      \* slot -> settled value of the fetch (null or conversation)
    conversationsWithParticipation,
    totalParticipationCount, processedCount, errorCount,
    fetchesIssued,     \* number of conversation fetches sent upstream so far
    response,          \* the HTTP response, once sent
    \* ---- evaluator applied as a pure function ----
    evIn,              \* [conversation, adminId, startTimestamp, endTimestamp]
    evOut,             \* result of hasAdminParticipation, once applied
    \* ---- the page of the client (progressive loader and pagination) ----
    endpoint,          \* the conversations endpoint as the page sees it: cursor -> response
    loops,             \* load -> state of its fetchConversationsProgressively call
    loadsStarted,      \* number of calls of loadConversations so far
    allConversations,  \* the shared in-memory list
    currentPage,
    isLoadingMore,
    display,           \* style.display of loadingState, errorState, conversationsContainer
    rendered,          \* what the last displayConversations left in the pagination
    lastEvent          \* the handler that ran last

serverVars == << pc, req, failing, upstreamSearch, searchResponse, searchesIssued, clock, since, before, searchData, conversationIds,
                 hasMorePages, nextCursor, i, order, inflight, batchResults,
                 conversationsWithParticipation, totalParticipationCount,
                 processedCount, errorCount, fetchesIssued, response >>
evalVars == << evIn, evOut >>
clientVars == << endpoint, loops, loadsStarted, allConversations, currentPage,
                 isLoadingMore, display, rendered, lastEvent >>
vars == << serverVars, evalVars, clientVars >>

(***************************************************************************)
(* Program constants                                                       *)
(***************************************************************************)
MAX_CONVERSATIONS == 150
EDGE_FUNCTION_TIMEOUT == 60000
BATCH_SIZE == 10
TIMEOUT_BUFFER == 5000
BATCH_DELAY == 100
\* 10000000000 = MS_THRESHOLD_HI * MILLION: the seconds/milliseconds threshold
MS_THRESHOLD_HI == 10000
MILLION == 1000 * 1000

(***************************************************************************)
(* Bounds of the model                                                     *)
(***************************************************************************)
MaxCandidates == 2      \* every candidate list over Ids up to this length
MaxParts == 2           \* every part list over PartSamples up to this length
SlowMs == 30000         \* duration of a slow upstream call (a fast one takes 0 ms)
MaxClock == 90000       \* no slow call starts once the clock would pass this

(***************************************************************************)
(* JavaScript values                                                       *)
(***************************************************************************)
\* A string is a tuple of one-character strings.
Digits == << "0", "1", "2", "3", "4", "5", "6", "7", "8", "9" >>
IsDigit(c) == \E k \in 1..10 : Digits[k] = c
DigitVal(c) == (CHOOSE k \in 1..10 : Digits[k] = c) - 1

\* String(n) for an integer n >= 0
RECURSIVE NumToString(_)
NumToString(n) ==
    IF n < 10 THEN << Digits[n + 1] >>
    ELSE Append(NumToString(n \div 10), Digits[(n % 10) + 1])

\* A value that is undefined, a number or a string (author.id, admin_id).
Undef == [t |-> "undef", n |-> 0, s |-> << >>]
Num(n) == [t |-> "num", n |-> n, s |-> << >>]
Str(s) == [t |-> "str", n |-> 0, s |-> s]

Truthy(v) ==
    CASE v.t = "undef" -> FALSE
      [] v.t = "num" -> v.n # 0
      [] v.t = "str" -> v.s # << >>

\* String(v) for a number or a string
JSString(v) == IF v.t = "num" THEN NumToString(v.n) ELSE v.s

NaN == [nan |-> TRUE, v |-> 0]

RECURSIVE SkipSpaces(_)
SkipSpaces(s) ==
    IF s # << >> /\ Head(s) = " " THEN SkipSpaces(Tail(s)) ELSE s

\* value of the longest prefix of decimal digits of s, acc being the value so far
RECURSIVE DigitPrefix(_, _, _)
DigitPrefix(s, acc, seen) ==
    IF s # << >> /\ IsDigit(Head(s))
    THEN DigitPrefix(Tail(s), acc * 10 + DigitVal(Head(s)), TRUE)
    ELSE [nan |-> ~seen, v |-> acc]

\* parseInt(s, 10): leading white space, an optional sign, then the longest
\* prefix of digits; NaN when there is no digit
parseInt(s) ==
    LET t == SkipSpaces(s)
        neg == t # << >> /\ Head(t) = "-"
        body == IF t # << >> /\ Head(t) \in {"-", "+"} THEN Tail(t) ELSE t
        r == DigitPrefix(body, 0, FALSE)
    IN  IF r.nan THEN NaN ELSE [nan |-> FALSE, v |-> IF neg THEN 0 - r.v ELSE r.v]

(***************************************************************************)
(* Numbers wider than 32 bits: [hi, lo] stands for hi * 10^6 + lo.         *)
(***************************************************************************)
Big(hi, lo) == [hi |-> hi, lo |-> lo]
ToBig(n) == Big(n \div MILLION, n % MILLION)
BigLe(a, b) == a.hi < b.hi \/ (a.hi = b.hi /\ a.lo <= b.lo)
BigLt(a, b) == a.hi < b.hi \/ (a.hi = b.hi /\ a.lo < b.lo)
\* Math.floor(x / 1000)
BigDiv1000(x) == Big(x.hi \div 1000, (x.hi % 1000) * 1000 + (x.lo \div 1000))
\* x * 1000
BigTimes1000(x) == Big(x.hi * 1000 + (x.lo \div 1000), (x.lo % 1000) * 1000)

\* part.created_at: undefined, a number, a date string that Date parses to ms
\* milliseconds, or a string that Date cannot parse
TsUndef == [t |-> "undef", v |-> Big(0, 0)]
TsNum(x) == [t |-> "num", v |-> x]
TsDate(ms) == [t |-> "date", v |-> ms]
TsBad == [t |-> "bad", v |-> Big(0, 0)]

Null == [isNull |-> TRUE, v |-> Big(0, 0)]
Some(x) == [isNull |-> FALSE, v |-> x]

(***************************************************************************)
(* Conversations, as the upstream API returns them                         *)
(***************************************************************************)
NoAuthor == [present |-> FALSE, type |-> "", id |-> Undef]
Author(type, id) == [present |-> TRUE, type |-> type, id |-> id]
Part(author, created_at) == [author |-> author, created_at |-> created_at]

\* conversation.conversation_parts: undefined, an array of parts, or an object
\* that may hold an array under conversation_parts and an array under parts
Absent == [present |-> FALSE, items |-> << >>]
Present(items) == [present |-> TRUE, items |-> items]
CpUndef == [kind |-> "undef", items |-> << >>, cp |-> Absent, parts |-> Absent]
CpArray(items) == [kind |-> "array", items |-> items, cp |-> Absent, parts |-> Absent]
CpObject(cp, parts) == [kind |-> "object", items |-> << >>, cp |-> cp, parts |-> parts]

Conversation(id, conversation_parts) ==
    [id |-> id, conversation_parts |-> conversation_parts]

(***************************************************************************)
(* hasAdminParticipation                                                   *)
(***************************************************************************)
\* only a flat array is recognized
ExtractPartsFlatOnly(conversation) ==
    LET c == conversation.conversation_parts
    IN  IF c.kind = "array" THEN c.items ELSE << >>

\* the parts extracted from the conversation, whatever its shape
ExtractParts(conversation) ==
    LET c == conversation.conversation_parts
    IN  IF c.kind # "undef"
        THEN IF c.kind = "array" THEN c.items
             ELSE IF c.cp.present THEN c.cp.items
             ELSE IF c.parts.present THEN c.parts.items
             ELSE << >>
        ELSE << >>

\* every number is taken as seconds
PartTimestampNoMillis(created_at) ==
    IF created_at.t = "undef"
       \/ (created_at.t = "num" /\ created_at.v = Big(0, 0))
    THEN Null
    ELSE IF created_at.t = "num" THEN Some(created_at.v)
         ELSE IF created_at.t = "date" THEN Some(BigDiv1000(created_at.v))
              ELSE Null

\* the timestamp of a part in whole seconds, or null
PartTimestamp(created_at) ==
    IF created_at.t = "undef"
       \/ (created_at.t = "num" /\ created_at.v = Big(0, 0))
    THEN Null
    ELSE IF created_at.t = "num"
         THEN IF created_at.v.hi < MS_THRESHOLD_HI
              THEN Some(created_at.v)
              ELSE Some(BigDiv1000(created_at.v))
         ELSE IF created_at.t = "date"
              THEN Some(BigDiv1000(created_at.v))
              ELSE Null   \* Math.floor(NaN) is NaN, which the loop skips like null

\* !partTimestamp
NoTimestamp(ts) == ts.isNull \/ ts.v = Big(0, 0)

IsTargetAdmin(authorId, adminId) ==
    LET adminIdStr == JSString(adminId)
        adminIdNum == parseInt(JSString(adminId))
        authorIdNum == parseInt(authorId)
    IN  authorId = adminIdStr
        \/ (~adminIdNum.nan /\ ~authorIdNum.nan /\ authorIdNum.v = adminIdNum.v)

\* the end of the window is excluded
IsInDateRangeExclusive(partTimestamp, startTimestamp, endTimestamp) ==
    /\ BigLe(ToBig(startTimestamp), partTimestamp)
    /\ BigLt(partTimestamp, ToBig(endTimestamp))

IsInDateRange(partTimestamp, startTimestamp, endTimestamp) ==
    /\ BigLe(ToBig(startTimestamp), partTimestamp)
    /\ BigLe(partTimestamp, ToBig(endTimestamp))

\* a part without a usable created_at is not skipped
CountsPartLenient(part, adminId, startTimestamp, endTimestamp) ==
    LET author == IF part.author.present THEN part.author ELSE NoAuthor
        authorId == IF Truthy(author.id) THEN JSString(author.id) ELSE << >>
        partTimestamp == PartTimestamp(part.created_at)
    IN  IF authorId = << >> THEN FALSE
        ELSE /\ author.type = "admin"
             /\ IsTargetAdmin(authorId, adminId)
             /\ \/ NoTimestamp(partTimestamp)
                \/ IsInDateRange(partTimestamp.v, startTimestamp, endTimestamp)

\* the author type is not looked at
CountsPartAnyType(part, adminId, startTimestamp, endTimestamp) ==
    LET author == IF part.author.present THEN part.author ELSE NoAuthor
        authorId == IF Truthy(author.id) THEN JSString(author.id) ELSE << >>
        partTimestamp == PartTimestamp(part.created_at)
    IN  IF authorId = << >> THEN FALSE
        ELSE IF NoTimestamp(partTimestamp) THEN FALSE
        ELSE /\ IsTargetAdmin(authorId, adminId)
             /\ IsInDateRange(partTimestamp.v, startTimestamp, endTimestamp)

\* one iteration of the loop over the parts: TRUE when partCount is incremented
CountsPart(part, adminId, startTimestamp, endTimestamp) ==
    LET author == IF part.author.present THEN part.author ELSE NoAuthor
        authorType == author.type
        \* null is the empty string here: String of a truthy id is never empty
        authorId == IF Truthy(author.id) THEN JSString(author.id) ELSE << >>
        partTimestamp == PartTimestamp(part.created_at)
    IN  IF authorId = << >> THEN FALSE
        ELSE IF NoTimestamp(partTimestamp) THEN FALSE
        ELSE /\ authorType = "admin"
             /\ IsTargetAdmin(authorId, adminId)
             /\ IsInDateRange(partTimestamp.v, startTimestamp, endTimestamp)

RECURSIVE CountParts(_, _, _, _)
CountParts(parts, adminId, startTimestamp, endTimestamp) ==
    IF parts = << >> THEN 0
    ELSE (IF CountsPart(Head(parts), adminId, startTimestamp, endTimestamp) THEN 1 ELSE 0)
         + CountParts(Tail(parts), adminId, startTimestamp, endTimestamp)

hasAdminParticipation(conversation, adminId, startTimestamp, endTimestamp) ==
    LET partCount == CountParts(ExtractParts(conversation), adminId,
                                startTimestamp, endTimestamp)
    IN  [hasParticipation |-> partCount > 0, partCount |-> partCount]

(***************************************************************************)
(* Inputs of the evaluator                                                 *)
(***************************************************************************)
S123 == << "1", "2", "3" >>
S8742044 == << "8", "7", "4", "2", "0", "4", "4" >>

\* the window of the scenario: 2025-11-10 02:00:00 .. 2025-11-11 01:59:59 UTC
ScenarioSince == 1762740000
ScenarioBefore == 1762826399
EvalWindows == { << ScenarioSince, ScenarioBefore >>, << 1700000000, 1700086399 >> }

EvalAdminIds == { Str(S123), Num(123), Str(S8742044) }

AuthorTypes == { "admin", "bot", "user", "" }
AuthorIds ==
    { Undef, Num(0), Str(<< >>), Num(123), Str(S123), Str(<< "1", "2", "3", "4" >>),
      Str(<< "0", "1", "2", "3" >>), Str(<< "1", "2", "3", "a" >>),
      Str(<< "a", "b", "c" >>), Str(S8742044), Num(8742044) }

\* seconds values around the two windows
SecondsNear ==
    { ScenarioSince - 1, ScenarioSince, 1762748354, ScenarioBefore, ScenarioBefore + 1,
      1700000000 }
\* seconds values s for which s and 1000 * s are compared
SecondsSamples ==
    { ToBig(n) : n \in SecondsNear }
    \cup { Big(0, 5000), Big(9, 999999), Big(10, 0), Big(9999, 999999) }

Timestamps ==
    { TsUndef, TsBad, TsNum(Big(0, 0)), TsDate(BigTimes1000(ToBig(1762748354))),
      TsNum(Big(MS_THRESHOLD_HI, 0)),
      TsNum(Big(ScenarioBefore \div MILLION, 399999)) }   \* before, in ms, plus 999 ms
    \cup { TsNum(x) : x \in SecondsSamples }
    \cup { TsNum(BigTimes1000(x)) : x \in SecondsSamples }

AllParts ==
    { Part(NoAuthor, ts) : ts \in Timestamps }
    \cup { Part(Author(ty, id), ts) : ty \in AuthorTypes, id \in AuthorIds, ts \in Timestamps }

\* the parts that longer conversations are built from
PartSamples ==
    { Part(Author("admin", Str(S8742044)), TsNum(ToBig(1762748354))),
      Part(Author("admin", Num(123)), TsNum(BigTimes1000(ToBig(ScenarioBefore)))),
      Part(Author("admin", Str(S123)), TsNum(ToBig(ScenarioSince))),
      Part(Author("admin", Str(S8742044)), TsNum(ToBig(ScenarioBefore + 1))),
      Part(Author("bot", Str(S8742044)), TsNum(ToBig(1762748354))),
      Part(Author("user", Str(S123)), TsNum(ToBig(ScenarioSince))),
      Part(NoAuthor, TsNum(ToBig(1762748354))),
      Part(Author("admin", Str(S123)), TsUndef) }

SeqsUpTo(S, n) == UNION { [1..k -> S] : k \in 0..n }

\* the shapes in which a list of parts can arrive
Shapes(parts) ==
    { CpArray(parts), CpObject(Present(parts), Absent), CpObject(Absent, Present(parts)),
      CpObject(Present(parts), Present(<< >>)) }

\* the same admin-authored part stamped s seconds and 1000 * s milliseconds
SecondsAndMillis(s, id) ==
    << Part(Author("admin", id), TsNum(s)), Part(Author("admin", id), TsNum(BigTimes1000(s))) >>

EvalConversations ==
    { Conversation(1, CpUndef), Conversation(1, CpObject(Absent, Absent)) }
    \cup { Conversation(1, CpArray(<< p >>)) : p \in AllParts }
    \cup { Conversation(1, CpArray(SecondsAndMillis(s, Str(S123)))) : s \in SecondsSamples }
    \cup UNION { { Conversation(1, c) : c \in Shapes(parts) } :
                 parts \in SeqsUpTo(PartSamples, MaxParts) }

NotEvaluated == [done |-> FALSE, hasParticipation |-> FALSE, partCount |-> 0]

(***************************************************************************)
(* The upstream messaging API, as one request sees it                      *)
(***************************************************************************)
Ids == 1..3

\* the conversation upstream holds under each id
UpstreamConversation(id) ==
    CASE id = 1 ->
           \* two parts of admin 8742044 and one of a bot
           Conversation(1, CpObject(Present(
               << Part(Author("admin", Str(S8742044)), TsNum(ToBig(1762748354))),
                  Part(Author("bot", Str(S8742044)), TsNum(ToBig(1762748400))),
                  Part(Author("admin", Str(S8742044)), TsNum(ToBig(1762820000))) >>),
               Absent))
      [] id = 2 ->
           \* admin 8742044 is assigned, its only part is one second late
           Conversation(2, CpObject(Present(
               << Part(Author("user", Str(S123)), TsNum(ToBig(1762748000))),
                  Part(Author("admin", Str(S8742044)), TsNum(ToBig(ScenarioBefore + 1))) >>),
               Absent))
      [] id = 3 ->
           \* a flat array, numeric ids, a millisecond timestamp
           Conversation(3, CpArray(
               << Part(Author("admin", Num(8742044)),
                       TsNum(BigTimes1000(ToBig(1762748354)))),
                  Part(Author("admin", Num(123)), TsNum(ToBig(1762748360))) >>))

\* how upstream answers the fetch of a conversation: with the conversation, or,
\* for an id it fails on, with a non-2xx status or an error thrown by fetch
FetchOutcomes(id, failed) == IF id \in failed THEN { "status", "throws" } ELSE { "ok" }

\* the list of length n that repeats 2, 3, 1
Cycle(n) == [k \in 1..n |-> (k % 3) + 1]
\* candidate lists: every short list, one list of two batches, and the lists at
\* and above the cap
ShortLists == SeqsUpTo(Ids, MaxCandidates) \cup { Cycle(BATCH_SIZE + 1) }
CapLists == { Cycle(MAX_CONVERSATIONS), Cycle(MAX_CONVERSATIONS + 1) }

\* searchData.pages.next: undefined, a string, or an object
NoNext == [kind |-> "undef", starting_after |-> "", cursor |-> "", text |-> ""]
NextValues ==
    { NoNext,
      [kind |-> "object", starting_after |-> "c1", cursor |-> "", text |-> ""],
      [kind |-> "object", starting_after |-> "", cursor |-> "c2", text |-> ""],
      [kind |-> "string", starting_after |-> "", cursor |-> "", text |-> "c1"],
      [kind |-> "string", starting_after |-> "", cursor |-> "",
       text |-> "https://up/search?starting_after=c1"] }

SearchResult(ids, next) == [conversations |-> ids, next |-> next]

(***************************************************************************)
(* Requests                                                                *)
(***************************************************************************)
\* days from 1970-01-01 to the civil date y-m-d
DaysFromCivil(y, m, d) ==
    LET yy == IF m <= 2 THEN y - 1 ELSE y
        era == yy \div 400
        yoe == yy - era * 400
        mp == (m + 9) % 12
        doy == (153 * mp + 2) \div 5 + d - 1
        doe == yoe * 365 + yoe \div 4 - yoe \div 100 + doy
    IN  era * 146097 + doe - 719468

\* the time of day is taken in a zone two hours behind UTC
DateUTCSecondsBehind(date, h, mi, sec) ==
    DaysFromCivil(date[1], date[2], date[3]) * 86400 + (h + 2) * 3600 + mi * 60 + sec

\* Math.floor(Date.UTC(year, month - 1, day, h, mi, sec) / 1000)
DateUTCSeconds(date, h, mi, sec) ==
    DaysFromCivil(date[1], date[2], date[3]) * 86400 + h * 3600 + mi * 60 + sec

\* the segments of s between the occurrences of sep: s.split(sep)
RECURSIVE Split(_, _, _)
Split(s, sep, seg) ==
    IF s = << >> THEN << seg >>
    ELSE IF Head(s) = sep THEN << seg >> \o Split(Tail(s), sep, << >>)
    ELSE Split(Tail(s), sep, Append(seg, Head(s)))

\* Number(s) for a string of decimal digits
Number(s) == DigitPrefix(s, 0, FALSE).v

\* updatedDate.split('-').map(Number)
SplitDate(updatedDate) ==
    LET parts == Split(updatedDate, "-", << >>)
    IN  [k \in DOMAIN parts |-> Number(parts[k])]

\* n in decimal with at least width digits
RECURSIVE Pad(_, _)
Pad(digits, width) == IF Len(digits) >= width THEN digits ELSE Pad(<< "0" >> \o digits, width)
\* the string YYYY-MM-DD of a date
DateStr(y, m, d) ==
    Pad(NumToString(y), 4) \o << "-" >> \o Pad(NumToString(m), 2)
        \o << "-" >> \o Pad(NumToString(d), 2)

\* the parameter updated_date is missing
NoDate == << >>
Requests ==
    { [admin_id |-> a, updated_date |-> DateStr(2025, 11, 10),
       updated_since |-> 0, updated_before |-> 0] : a \in { S8742044, S123 } }
    \cup
    { [admin_id |-> a, updated_date |-> NoDate,
       updated_since |-> ScenarioSince, updated_before |-> ScenarioBefore] :
      a \in { S8742044, S123 } }
    \cup
    \* the bounds of the window in reverse order
    { [admin_id |-> S8742044, updated_date |-> NoDate,
       updated_since |-> ScenarioBefore, updated_before |-> ScenarioSince] }

\* the window of a request
WindowSince(r) ==
    IF r.updated_date # NoDate THEN DateUTCSeconds(SplitDate(r.updated_date), 0, 0, 0)
    ELSE r.updated_since
WindowBefore(r) ==
    IF r.updated_date # NoDate THEN DateUTCSeconds(SplitDate(r.updated_date), 23, 59, 59)
    ELSE r.updated_before

(***************************************************************************)
(* The request handler of the conversations endpoint                       *)
(***************************************************************************)
Min(S) == CHOOSE x \in S : \A y \in S : x <= y
Max(S) == CHOOSE x \in S : \A y \in S : x >= y

\* the orders in which the fetches of a batch complete: first to last, last to first
CompletionOrders == { "asc", "desc" }

\* a slot of Promise.all: not settled yet, settled with null, settled with data
Pending == [state |-> "pending", data |-> Conversation(0, CpUndef)]
SettledNull == [state |-> "null", data |-> Conversation(0, CpUndef)]
Settled(data) == [state |-> "data", data |-> data]

\* fetchConversationWithParts: null on a non-2xx status and on a thrown error
fetchConversationWithParts(outcome, conversationId) ==
    IF outcome = "status" THEN SettledNull
    ELSE IF outcome = "throws" THEN SettledNull
    ELSE Settled(UpstreamConversation(conversationId))

\* an upstream HTTP response: its status and its body as text
HttpResponse(status, text) == [status |-> status, text |-> text]
NotReceived == HttpResponse(0, "")
\* response.ok: the status is in the range 200-299
Ok(r) == r.status >= 200 /\ r.status <= 299
\* the statuses and bodies upstream answers a failing search with
FailureStatuses == { 401, 429, 500 }
ErrorTexts == { "", "rate limit exceeded" }

\* the message of an Error, as its parts; no message is << >>
NoMessage == << >>
\* the message names the search call
SearchErrorMessageGeneric(status, errorText) ==
    << "Intercom Search API error" >>

\* `Intercom Search API error (${searchResponse.status}): ${errorText}`
SearchErrorMessage(status, errorText) ==
    << "Intercom Search API error (", NumToString(status), "): ", errorText >>

NoResponse ==
    [kind |-> "none", status |-> 0, error |-> NoMessage,
     conversations |-> << >>, total_count |-> 0,
     has_more |-> FALSE, next_cursor |-> "",
     participation_count |-> 0, processed_count |-> 0, error_count |-> 0]

\* the response to an empty candidate list (it has no next_cursor and no counters)
EmptyResponse ==
    [kind |-> "empty", status |-> 200, error |-> NoMessage,
     conversations |-> << >>, total_count |-> 0,
     has_more |-> FALSE, next_cursor |-> "",
     participation_count |-> 0, processed_count |-> 0, error_count |-> 0]

\* the response after the batch loop
FullResponse(convs, more, cursor, ids, participation, processed, errors) ==
    [kind |-> "full", status |-> 200, error |-> NoMessage,
     conversations |-> convs, total_count |-> Len(convs),
     has_more |-> (more \/ Len(ids) >= MAX_CONVERSATIONS),
     next_cursor |-> cursor,
     participation_count |-> participation, processed_count |-> processed,
     error_count |-> errors]

\* the response of the catch block
ErrorResponse(message) ==
    [kind |-> "error", status |-> 500, error |-> message,
     conversations |-> << >>, total_count |-> 0,
     has_more |-> FALSE, next_cursor |-> "",
     participation_count |-> 0, processed_count |-> 0, error_count |-> 0]

\* searchData.pages.next?.starting_after, else searchData.pages.next?.cursor
ExtractCursor(next) ==
    IF next.kind = "object" /\ next.starting_after # "" THEN next.starting_after
    ELSE IF next.kind = "object" /\ next.cursor # "" THEN next.cursor
    ELSE ""

\* the empty candidate list is not answered early
IsEmptyListNever(ids) == FALSE

\* conversationIds.length === 0
IsEmptyList(ids) == Len(ids) = 0

\* the candidate list is not capped
ApplyMaxLimitNone(ids) == ids

\* conversationIds.slice(0, MAX_CONVERSATIONS)
ApplyMaxLimit(ids) ==
    IF Len(ids) <= MAX_CONVERSATIONS THEN ids ELSE SubSeq(ids, 1, MAX_CONVERSATIONS)

\* the batch is all the candidates that are left
BatchAtRest(ids, idx) == SubSeq(ids, idx + 1, Len(ids))

\* conversationIds.slice(i, i + BATCH_SIZE)
BatchAt(ids, idx) ==
    SubSeq(ids, idx + 1, IF idx + BATCH_SIZE <= Len(ids) THEN idx + BATCH_SIZE ELSE Len(ids))

\* the elapsed time is never looked at
TimeoutApproachingNever(elapsed) == FALSE

\* elapsed > EDGE_FUNCTION_TIMEOUT - 5000
TimeoutApproaching(elapsed) == elapsed > EDGE_FUNCTION_TIMEOUT - TIMEOUT_BUFFER

\* The head of the batch loop at offset idx, reached at time now: either the next
\* batch of fetches is issued, or the loop ends and the response is sent.
LoopHead(idx, now, ids) ==
    IF idx < Len(ids) /\ ~TimeoutApproaching(now)
    THEN /\ pc' = "fetching"
         /\ i' = idx
         /\ inflight' = 1..Len(BatchAt(ids, idx))
         /\ batchResults' = [k \in 1..Len(BatchAt(ids, idx)) |-> Pending]
         /\ order' \in CompletionOrders
         /\ fetchesIssued' = fetchesIssued + Len(BatchAt(ids, idx))
         /\ response' = response
    ELSE /\ pc' = "done"
         /\ i' = idx
         /\ inflight' = {}
         /\ batchResults' = << >>
         /\ order' = order
         /\ fetchesIssued' = fetchesIssued
         /\ response' = FullResponse(conversationsWithParticipation',
                                     hasMorePages', nextCursor', ids,
                                     totalParticipationCount', processedCount', errorCount')

\* the request arrives: the window is computed and the search is sent
StartRequest ==
    /\ pc = "start"
    /\ pc' = "search"
    /\ since' = WindowSince(req)
    /\ before' = WindowBefore(req)
    /\ searchesIssued' = searchesIssued + 1
    /\ UNCHANGED << req, failing, upstreamSearch, searchResponse,
                    clock, searchData, conversationIds, hasMorePages,
                    nextCursor, i, order, inflight, batchResults,
                    conversationsWithParticipation, totalParticipationCount,
                    processedCount, errorCount, fetchesIssued, response, evalVars, clientVars >>

\* the search answers with a non-2xx status: the handler throws into its catch block
SearchFails ==
    /\ pc = "search"
    /\ pc' = "done"
    /\ \E status \in FailureStatuses, errorText \in ErrorTexts :
         /\ searchResponse' = HttpResponse(status, errorText)
         /\ response' = ErrorResponse(SearchErrorMessage(status, errorText))
    /\ UNCHANGED << req, failing, upstreamSearch, searchesIssued,
                    clock, since, before, searchData, conversationIds,
                    hasMorePages, nextCursor, i, order, inflight, batchResults,
                    conversationsWithParticipation, totalParticipationCount,
                    processedCount, errorCount, fetchesIssued, evalVars, clientVars >>

\* the search answers with candidates: cap, cursor, then the first batch
SearchResponds ==
    /\ pc = "search"
    /\ searchResponse' = HttpResponse(200, "")
    /\ LET data == upstreamSearch IN
         /\ searchData' = data
         /\ conversationIds' = ApplyMaxLimit(data.conversations)
         /\ nextCursor' = ExtractCursor(data.next)
         /\ hasMorePages' = (ExtractCursor(data.next) # "")
         /\ conversationsWithParticipation' = << >>
         /\ totalParticipationCount' = 0
         /\ processedCount' = 0
         /\ errorCount' = 0
         /\ IF IsEmptyList(ApplyMaxLimit(data.conversations))
            THEN /\ pc' = "done"
                 /\ response' = EmptyResponse
                 /\ UNCHANGED << i, order, inflight, batchResults, fetchesIssued >>
            ELSE LoopHead(0, clock, ApplyMaxLimit(data.conversations))
    /\ UNCHANGED << req, failing, upstreamSearch, searchesIssued,
                    clock, since, before, evalVars, clientVars >>

\* time passes while the handler awaits the search or the fetches of a batch
Tick ==
    /\ pc \in { "search", "fetching" }
    /\ clock + SlowMs <= MaxClock
    /\ clock' = clock + SlowMs
    /\ UNCHANGED << pc, req, failing, upstreamSearch, searchResponse, searchesIssued,
                    since, before, searchData, conversationIds,
                    hasMorePages, nextCursor, i, order, inflight, batchResults,
                    conversationsWithParticipation, totalParticipationCount,
                    processedCount, errorCount, fetchesIssued, response, evalVars, clientVars >>

\* one fetch of the batch in flight settles
FetchSettles ==
    /\ pc = "fetching"
    /\ inflight # {}
    /\ LET k == IF order = "asc" THEN Min(inflight) ELSE Max(inflight)
           id == conversationIds[i + k]
       IN  /\ inflight' = inflight \ { k }
           /\ \E outcome \in FetchOutcomes(id, failing) :
                batchResults' =
                    [batchResults EXCEPT ![k] = fetchConversationWithParts(outcome, id)]
    /\ UNCHANGED << pc, req, failing, upstreamSearch, searchResponse, searchesIssued,
                    clock, since, before, searchData, conversationIds,
                    hasMorePages, nextCursor, i, order,
                    conversationsWithParticipation, totalParticipationCount,
                    processedCount, errorCount, fetchesIssued, response, evalVars, clientVars >>

\* the total counts conversations instead of parts
ProcessOneCountsConversations(acc, conversation, adminId, startTimestamp, endTimestamp) ==
    IF conversation.state = "null"
    THEN [acc EXCEPT !.errors = @ + 1]
    ELSE LET participation == hasAdminParticipation(conversation.data, Str(adminId),
                                                    startTimestamp, endTimestamp)
         IN  IF participation.hasParticipation
             THEN [convs |-> Append(acc.convs,
                                    [id |-> conversation.data.id,
                                     participation_part_count |-> participation.partCount]),
                   participation |-> acc.participation + 1,
                   processed |-> acc.processed + 1,
                   errors |-> acc.errors]
             ELSE [acc EXCEPT !.processed = @ + 1]

\* processedCount is incremented only for a conversation with participation
ProcessOneSkipsUnmatched(acc, conversation, adminId, startTimestamp, endTimestamp) ==
    IF conversation.state = "null"
    THEN [acc EXCEPT !.errors = @ + 1]
    ELSE LET participation == hasAdminParticipation(conversation.data, Str(adminId),
                                                    startTimestamp, endTimestamp)
         IN  IF participation.hasParticipation
             THEN [convs |-> Append(acc.convs,
                                    [id |-> conversation.data.id,
                                     participation_part_count |-> participation.partCount]),
                   participation |-> acc.participation + participation.partCount,
                   processed |-> acc.processed + 1,
                   errors |-> acc.errors]
             ELSE acc

\* one iteration of the loop over the results of a batch
ProcessOne(acc, conversation, adminId, startTimestamp, endTimestamp) ==
    IF conversation.state = "null"
    THEN [acc EXCEPT !.errors = @ + 1]
    ELSE LET participation == hasAdminParticipation(conversation.data, Str(adminId),
                                                    startTimestamp, endTimestamp)
         IN  IF participation.hasParticipation
             THEN [convs |-> Append(acc.convs,
                                    [id |-> conversation.data.id,
                                     participation_part_count |-> participation.partCount]),
                   participation |-> acc.participation + participation.partCount,
                   processed |-> acc.processed + 1,
                   errors |-> acc.errors]
             ELSE [acc EXCEPT !.processed = @ + 1]

\* the results are taken in the order in which the fetches completed
RECURSIVE ProcessResultsAsCompleted(_, _, _, _, _)
ProcessResultsAsCompleted(results, adminId, startTimestamp, endTimestamp, acc) ==
    IF results = << >> THEN acc
    ELSE LET k == IF order = "desc" THEN Len(results) ELSE 1
             rest == IF order = "desc" THEN SubSeq(results, 1, Len(results) - 1)
                     ELSE Tail(results)
         IN  ProcessResultsAsCompleted(rest, adminId, startTimestamp, endTimestamp,
                                       ProcessOne(acc, results[k], adminId,
                                                  startTimestamp, endTimestamp))

\* a failed fetch ends the loop over the results (break instead of continue)
RECURSIVE ProcessResultsBreak(_, _, _, _, _)
ProcessResultsBreak(results, adminId, startTimestamp, endTimestamp, acc) ==
    IF results = << >> THEN acc
    ELSE IF Head(results).state = "null" THEN [acc EXCEPT !.errors = @ + 1]
    ELSE ProcessResultsBreak(Tail(results), adminId, startTimestamp, endTimestamp,
                             ProcessOne(acc, Head(results), adminId,
                                        startTimestamp, endTimestamp))

\* the accumulators after the results of one batch, taken in batch order
RECURSIVE ProcessResults(_, _, _, _, _)
ProcessResults(results, adminId, startTimestamp, endTimestamp, acc) ==
    IF results = << >> THEN acc
    ELSE ProcessResults(Tail(results), adminId, startTimestamp, endTimestamp,
                        ProcessOne(acc, Head(results), adminId,
                                   startTimestamp, endTimestamp))

\* Promise.all resolves: the batch is evaluated; then the delay, or the end of the loop
ProcessBatch ==
    /\ pc = "fetching"
    /\ inflight = {}
    /\ LET acc == ProcessResults(batchResults, req.admin_id, since, before,
                                 [convs |-> conversationsWithParticipation,
                                  participation |-> totalParticipationCount,
                                  processed |-> processedCount,
                                  errors |-> errorCount])
       IN  /\ conversationsWithParticipation' = acc.convs
           /\ totalParticipationCount' = acc.participation
           /\ processedCount' = acc.processed
           /\ errorCount' = acc.errors
    /\ UNCHANGED << req, failing, upstreamSearch, searchResponse, searchesIssued,
                    clock, since, before, searchData, conversationIds,
                    hasMorePages, nextCursor, evalVars, clientVars >>
    /\ IF i + BATCH_SIZE < Len(conversationIds)
       THEN /\ pc' = "delay"
            /\ batchResults' = << >>
            /\ UNCHANGED << i, order, inflight, fetchesIssued, response >>
       ELSE LoopHead(i + BATCH_SIZE, clock, conversationIds)

\* the delay between two batches is over: the loop goes on with the next offset
DelayElapsed ==
    /\ pc = "delay"
    /\ clock' = clock + BATCH_DELAY
    /\ UNCHANGED << req, failing, upstreamSearch, searchResponse, searchesIssued,
                    since, before, searchData, conversationIds,
                    hasMorePages, nextCursor, conversationsWithParticipation,
                    totalParticipationCount, processedCount, errorCount, evalVars, clientVars >>
    /\ LoopHead(i + BATCH_SIZE, clock + BATCH_DELAY, conversationIds)

(***************************************************************************)
(* The page of the client: values                                          *)
(***************************************************************************)
itemsPerPage == 20
maxPages == 100

\* the number of loads the user starts on one page
MaxLoads == 2
Loads == 1..MaxLoads

\* Math.ceil(n / d) for n >= 0, d > 0
Ceil(n, d) == (n + d - 1) \div d

\* A JS string is the sequence of its tokens: the separators "?", "&", "=" and
\* the texts between them.  null, undefined and "" are all << >> (falsy).
NoCursor == << >>
CursorC1 == << "c1" >>
CursorC2 == << "c2" >>
UrlWithC1 == << "https://up/search", "?", "per_page", "=", "150", "&",
                "starting_after", "=", "c1" >>
UrlWithoutCursor == << "https://up/search", "?", "page", "=", "2" >>
UrlWithEmptyCursor == << "https://up/search", "?", "starting_after", "=" >>

\* s.includes(t)
Includes(s, t) == \E k \in DOMAIN s : s[k] = t

\* the first position of t in s from position from on, Len(s) + 1 if there is none
RECURSIVE IndexOf(_, _, _)
IndexOf(s, t, from) ==
    IF from > Len(s) THEN Len(s) + 1
    ELSE IF s[from] = t THEN from
    ELSE IndexOf(s, t, from + 1)

\* s.split(sep)[1], for s that includes sep
SplitSecond(s, sep) ==
    LET a == IndexOf(s, sep, 1)
        b == IndexOf(s, sep, a + 1)
    IN  SubSeq(s, a + 1, b - 1)

\* new URLSearchParams(query).get(name): the value of the first pair called name
RECURSIVE URLSearchParamsGet(_, _)
URLSearchParamsGet(query, name) ==
    IF query = << >> THEN NoCursor
    ELSE LET amp == IndexOf(query, "&", 1)
             pair == SubSeq(query, 1, amp - 1)
             eq == IndexOf(pair, "=", 1)
         IN  IF SubSeq(pair, 1, eq - 1) = << name >>
             THEN SubSeq(pair, eq + 1, Len(pair))
             ELSE URLSearchParamsGet(SubSeq(query, amp + 1, Len(query)), name)

\* data.pages.next: undefined, a string, a number, or an object
PnUndef == [kind |-> "undef", text |-> << >>, starting_after |-> NoCursor, cursor |-> NoCursor]
PnString(text) ==
    [kind |-> "string", text |-> text, starting_after |-> NoCursor, cursor |-> NoCursor]
PnNumber == [kind |-> "number", text |-> << >>, starting_after |-> NoCursor, cursor |-> NoCursor]
PnObject(starting_after, cursor) ==
    [kind |-> "object", text |-> << >>, starting_after |-> starting_after, cursor |-> cursor]

\* data.pages: null, or an object with next
NoPages == [present |-> FALSE, next |-> PnUndef]
Pages(next) == [present |-> TRUE, next |-> next]

\* the values of data.pages that carry the cursor c1, and those that carry none
PagesWithC1 ==
    { Pages(PnString(CursorC1)), Pages(PnString(UrlWithC1)),
      Pages(PnObject(CursorC1, NoCursor)), Pages(PnObject(NoCursor, CursorC1)),
      Pages(PnObject(CursorC1, CursorC2)) }
PagesWithoutCursor ==
    { NoPages, Pages(PnUndef), Pages(PnString(<< >>)), Pages(PnNumber),
      Pages(PnString(UrlWithoutCursor)), Pages(PnString(UrlWithEmptyCursor)),
      Pages(PnObject(NoCursor, NoCursor)) }

\* if (pages.next)
TruthyNext(next) ==
    CASE next.kind = "undef" -> FALSE
      [] next.kind = "string" -> next.text # << >>
      [] OTHER -> TRUE

\* startingAfter after the block "Check if there are more pages"
ExtractStartingAfter(pages) ==
    IF ~pages.present \/ ~TruthyNext(pages.next) THEN NoCursor
    ELSE IF pages.next.kind = "string"
         THEN IF Includes(pages.next.text, "?")
              THEN URLSearchParamsGet(SplitSecond(pages.next.text, "?"), "starting_after")
              ELSE pages.next.text
         ELSE IF pages.next.kind = "object"
              THEN IF pages.next.starting_after # NoCursor THEN pages.next.starting_after
                   ELSE pages.next.cursor
              ELSE NoCursor

\* a response of the conversations endpoint: status, error of the body, the number
\* of conversations and pages
OkPage(count, pages) == [status |-> 200, error |-> << >>, count |-> count, pages |-> pages]
FailedPage(status, error) ==
    [status |-> status, error |-> error, count |-> 0, pages |-> NoPages]
\* the conversations the endpoint returns to load l for cursor c: the k-th is << l, c, k >>
PageConversations(l, c, page) == [k \in 1..page.count |-> << l, c, k >>]

\* the cursors a request can carry
Cursors == { NoCursor, CursorC1, CursorC2 }

\* The endpoint maps the cursor of a request to its response.
\* one page: the first response has count conversations and pages; a request with
\* a cursor is answered with one conversation and no pages
SinglePage(count, pages) ==
    [c \in Cursors |-> IF c = NoCursor THEN OkPage(count, pages)
                       ELSE OkPage(1, NoPages)]
\* three pages: the first carries c1 in pages1, the second c2 in pages2
Chain(n1, pages1, n2, pages2, n3) ==
    [c \in Cursors |-> IF c = NoCursor THEN OkPage(n1, pages1)
                       ELSE IF c = CursorC1 THEN OkPage(n2, pages2)
                       ELSE OkPage(n3, NoPages)]
\* every response carries the cursor c1 again
CursorLoop ==
    [c \in Cursors |-> OkPage(1, Pages(PnObject(CursorC1, NoCursor)))]
\* the first response is an error of the handler
FailsFirst ==
    [c \in Cursors |-> FailedPage(500, << "Intercom Search API error (429): " >>)]
\* the second response is an error without a JSON body
FailsSecond ==
    [c \in Cursors |-> IF c = NoCursor THEN OkPage(20, Pages(PnObject(CursorC1, NoCursor)))
                       ELSE FailedPage(502, << >>)]

SinglePageCounts == { 0, 1, 60 }
PagesWithC2 == { Pages(PnString(CursorC2)), Pages(PnObject(NoCursor, CursorC2)) }
\* the pages of 45, 45 and 10 conversations
Pages45_45_10 == Chain(45, Pages(PnObject(CursorC1, NoCursor)),
                       45, Pages(PnObject(CursorC2, NoCursor)), 10)
\* two pages: 20 conversations with the cursor c1, then one conversation
Pages20_1 == SinglePage(20, Pages(PnObject(CursorC1, NoCursor)))
\* three pages, the second one empty though it carries the cursor c2
Pages20_0_10 == Chain(20, Pages(PnObject(CursorC1, NoCursor)),
                      0, Pages(PnObject(CursorC2, NoCursor)), 10)
\* the endpoints on which the user starts a load while another is running
ReloadEndpoints == { Pages20_1, FailsSecond }
Endpoints ==
    { SinglePage(n, p) : n \in SinglePageCounts, p \in PagesWithC1 \cup PagesWithoutCursor }
    \cup { Chain(45, p1, 45, p2, 10) : p1 \in PagesWithC1, p2 \in PagesWithC2 }
    \cup { Pages45_45_10, Pages20_1, Pages20_0_10, CursorLoop, FailsFirst }
    \cup ReloadEndpoints
LoadsOn(ep) == IF ep \in ReloadEndpoints THEN MaxLoads ELSE 1

\* the state of one call of fetchConversationsProgressively
IdleLoop == [pc |-> "idle", startingAfter |-> NoCursor, pageCount |-> 0,
             requested |-> << >>]
\* the page as rendered: pagination, its info line, the rows of the table, the buttons
NotRendered ==
    [pagination |-> "none", start |-> 0, end |-> 0, total |-> 0, plus |-> FALSE,
     rows |-> << >>, prevDisabled |-> TRUE, nextDisabled |-> TRUE,
     nextLoading |-> FALSE, buttons |-> << >>]
AllHidden == [loadingState |-> "none", errorState |-> "none",
              conversationsContainer |-> "none", errorMessage |-> << >>]
NoEvent == [type |-> "none", arg |-> 0]
Event(type, arg) == [type |-> type, arg |-> arg]

ClientIdle ==
    /\ endpoint = CursorLoop
    /\ loops = [l \in Loads |-> IdleLoop]
    /\ loadsStarted = 0
    /\ allConversations = << >>
    /\ currentPage = 1
    /\ isLoadingMore = FALSE
    /\ display = AllHidden
    /\ rendered = NotRendered
    /\ lastEvent = NoEvent

EvalIdle == /\ evIn = [conversation |-> Conversation(0, CpUndef), adminId |-> Undef,
                       startTimestamp |-> 0, endTimestamp |-> 0]
            /\ evOut = NotEvaluated

\* The worlds a request runs in: every request against every short candidate list,
\* every set of failing ids and every shape of pages.next; and one request against
\* the candidate lists at and above the cap.
Worlds ==
    { [req |-> r, failing |-> f, search |-> SearchResult(ids, n)] :
      r \in Requests, f \in SUBSET Ids, ids \in ShortLists, n \in NextValues }
    \cup
    { [req |-> r, failing |-> f, search |-> SearchResult(ids, n)] :
      r \in { q \in Requests : q.admin_id = S8742044 /\ q.updated_date = NoDate },
      f \in { {}, {3} }, ids \in CapLists, n \in { NoNext } }

Init ==
    /\ pc = "start"
    /\ \E w \in Worlds :
         /\ req = w.req
         /\ failing = w.failing
         /\ upstreamSearch = w.search
    /\ searchResponse = NotReceived
    /\ searchesIssued = 0
    /\ clock = 0
    /\ since = 0
    /\ before = 0
    /\ searchData = SearchResult(<< >>, NoNext)
    /\ conversationIds = << >>
    /\ hasMorePages = FALSE
    /\ nextCursor = ""
    /\ i = 0
    /\ order = "asc"
    /\ inflight = {}
    /\ batchResults = << >>
    /\ conversationsWithParticipation = << >>
    /\ totalParticipationCount = 0
    /\ processedCount = 0
    /\ errorCount = 0
    /\ fetchesIssued = 0
    /\ response = NoResponse
    /\ EvalIdle
    /\ ClientIdle

Next ==
    \/ StartRequest
    \/ SearchFails
    \/ SearchResponds
    \/ Tick
    \/ FetchSettles
    \/ ProcessBatch
    \/ DelayElapsed

Spec == Init /\ [][Next]_vars

(***************************************************************************)
(* hasAdminParticipation applied to one input                              *)
(***************************************************************************)
ServerIdle ==
    /\ pc = "idle"
    /\ req = [admin_id |-> << >>, updated_date |-> NoDate,
              updated_since |-> 0, updated_before |-> 0]
    /\ failing = {}
    /\ upstreamSearch = SearchResult(<< >>, NoNext)
    /\ searchResponse = NotReceived
    /\ searchesIssued = 0
    /\ clock = 0
    /\ since = 0
    /\ before = 0
    /\ searchData = SearchResult(<< >>, NoNext)
    /\ conversationIds = << >>
    /\ hasMorePages = FALSE
    /\ nextCursor = ""
    /\ i = 0
    /\ order = "asc"
    /\ inflight = {}
    /\ batchResults = << >>
    /\ conversationsWithParticipation = << >>
    /\ totalParticipationCount = 0
    /\ processedCount = 0
    /\ errorCount = 0
    /\ fetchesIssued = 0
    /\ response = NoResponse

InitEval ==
    /\ ServerIdle
    /\ ClientIdle
    /\ evIn \in [conversation : EvalConversations, adminId : EvalAdminIds,
                  startTimestamp : { w[1] : w \in EvalWindows },
                  endTimestamp : { w[2] : w \in EvalWindows }]
    /\ << evIn.startTimestamp, evIn.endTimestamp >> \in EvalWindows
    /\ evOut = NotEvaluated

Evaluate ==
    /\ ~evOut.done
    /\ LET r == hasAdminParticipation(evIn.conversation, evIn.adminId,
                                      evIn.startTimestamp, evIn.endTimestamp)
       IN  evOut' = [done |-> TRUE, hasParticipation |-> r.hasParticipation,
                     partCount |-> r.partCount]
    /\ UNCHANGED << evIn, serverVars, clientVars >>

NextEval == Evaluate

SpecEval == InitEval /\ [][NextEval]_vars

(***************************************************************************)
(* The window of a request: the handler up to the search call              *)
(***************************************************************************)
IsLeap(y) == (y % 4 = 0 /\ y % 100 # 0) \/ y % 400 = 0
DaysInMonth(y, m) ==
    IF m = 2 THEN (IF IsLeap(y) THEN 29 ELSE 28)
    ELSE IF m \in { 4, 6, 9, 11 } THEN 30 ELSE 31

\* the calendar dates sent as updated_date
WindowDates ==
    { date \in { 1970, 2024, 2025 } \X { 1, 2, 3, 11, 12 } \X { 1, 10, 28, 29, 30, 31 } :
        date[3] <= DaysInMonth(date[1], date[2]) }
WindowRequests ==
    { [admin_id |-> S8742044, updated_date |-> DateStr(date[1], date[2], date[3]),
       updated_since |-> 0, updated_before |-> 0] : date \in WindowDates }
    \cup { r \in Requests : r.admin_id = S8742044 }

InitWindow ==
    /\ pc = "start"
    /\ req \in WindowRequests
    /\ failing = {}
    /\ upstreamSearch = SearchResult(<< >>, NoNext)
    /\ searchResponse = NotReceived
    /\ searchesIssued = 0
    /\ clock = 0
    /\ since = 0
    /\ before = 0
    /\ searchData = SearchResult(<< >>, NoNext)
    /\ conversationIds = << >>
    /\ hasMorePages = FALSE
    /\ nextCursor = ""
    /\ i = 0
    /\ order = "asc"
    /\ inflight = {}
    /\ batchResults = << >>
    /\ conversationsWithParticipation = << >>
    /\ totalParticipationCount = 0
    /\ processedCount = 0
    /\ errorCount = 0
    /\ fetchesIssued = 0
    /\ response = NoResponse
    /\ EvalIdle
    /\ ClientIdle

NextWindow == StartRequest

SpecWindow == InitWindow /\ [][NextWindow]_vars

(***************************************************************************)
(* The page of the client: loader and pagination                           *)
(***************************************************************************)
\* response.ok
OkStatus(page) == page.status >= 200 /\ page.status <= 299

\* errorData.error || `HTTP ${response.status}: ${response.statusText}`
ErrorMsg(page) ==
    IF page.error # << >> THEN page.error
    ELSE << "HTTP ", NumToString(page.status), ": " >>

\* isLoadingMore && pageNum > lastAvailablePage && pageNum <= totalPages
IsCurrentlyLoading(loading, pageNum, lastAvailablePage, totalPages) ==
    loading /\ pageNum > lastAvailablePage /\ pageNum <= totalPages

\* every button of the pagination counts as ready
IsPageReadyAlways(pageNum, lastAvailablePage) == TRUE

\* pageNum <= lastAvailablePage
IsPageReady(pageNum, lastAvailablePage) == pageNum <= lastAvailablePage

\* one button of the loop "Generate page numbers" of updatePaginationControls
PageButton(pageNum, page, loading, lastAvailablePage, totalPages) ==
    [active |-> (pageNum = page),
     disabled |-> ~IsPageReady(pageNum, lastAvailablePage),
     title |-> IF IsCurrentlyLoading(loading, pageNum, lastAvailablePage, totalPages)
               THEN "Loading..."
               ELSE IF ~IsPageReady(pageNum, lastAvailablePage)
                    THEN "Page not ready yet" ELSE "",
     listener |-> IsPageReady(pageNum, lastAvailablePage)]

\* displayConversations with updatePaginationControls: what it leaves on the page
\* for the list, the current page and the loading flag it reads
Render(list, page, loading, old) ==
    IF Len(list) = 0 THEN [old EXCEPT !.pagination = "none", !.rows = << >>]
    ELSE LET totalPages == Ceil(Len(list), itemsPerPage)
             startIndex == (page - 1) * itemsPerPage
             endIndex == IF startIndex + itemsPerPage <= Len(list)
                         THEN startIndex + itemsPerPage ELSE Len(list)
             lastAvailablePage == Ceil(Len(list), itemsPerPage)
             pagesToShow == IF loading
                            THEN (IF totalPages >= lastAvailablePage + 2 THEN totalPages
                                  ELSE lastAvailablePage + 2)
                            ELSE totalPages
         IN  [pagination |-> "flex",
              start |-> startIndex + 1,
              end |-> endIndex,
              total |-> Len(list),
              plus |-> loading,
              rows |-> SubSeq(list, startIndex + 1, endIndex),
              prevDisabled |-> (page = 1),
              nextDisabled |-> IF page >= lastAvailablePage /\ loading THEN FALSE
                               ELSE (page >= totalPages /\ ~loading) \/ totalPages = 0,
              nextLoading |-> (page >= lastAvailablePage /\ loading),
              buttons |-> [pageNum \in 1..pagesToShow |->
                              PageButton(pageNum, page, loading, lastAvailablePage,
                                         totalPages)]]

\* the loop goes on while a cursor was extracted, whatever the number of pages
LoopContinuesUncapped(hasMore, pageCount) == hasMore /\ pageCount < maxPages + maxPages

\* while (hasMore && pageCount < maxPages)
LoopContinues(hasMore, pageCount) == hasMore /\ pageCount < maxPages

\* the list is kept when a load starts
ResetListKeeps(list) == list

\* allConversations = []
ResetList(list) == << >>

\* loadConversations, up to the first await of fetchConversationsProgressively
LoadConversations ==
    /\ loadsStarted < LoadsOn(endpoint)
    /\ loadsStarted' = loadsStarted + 1
    /\ display' = [display EXCEPT !.loadingState = "block", !.errorState = "none",
                                  !.conversationsContainer = "none"]
    /\ allConversations' = ResetList(allConversations)
    /\ currentPage' = 1
    /\ isLoadingMore' = TRUE
    /\ loops' = [loops EXCEPT ![loadsStarted + 1] =
                    [pc |-> "awaiting", startingAfter |-> NoCursor, pageCount |-> 1,
                     requested |-> << NoCursor >>]]
    /\ lastEvent' = Event("load", loadsStarted + 1)
    /\ UNCHANGED << endpoint, rendered, serverVars, evalVars >>

\* only the first page is kept
AppendPageOnce(list, pageConversations) ==
    IF Len(pageConversations) > 0 /\ Len(list) = 0 THEN pageConversations ELSE list

\* if (pageConversations.length > 0) allConversations = allConversations.concat(...)
AppendPage(list, pageConversations) ==
    IF Len(pageConversations) > 0 THEN list \o pageConversations ELSE list

\* an empty page does not end the loop
HasMoreDespiteEmptyPage(pageConversations, startingAfter) == startingAfter # NoCursor

\* hasMore at the end of the loop body: there is a cursor, and the page was not
\* empty (an empty page sets hasMore = false and breaks)
HasMore(pageConversations, startingAfter) ==
    Len(pageConversations) > 0 /\ startingAfter # NoCursor

\* the response awaited by load l arrives: the rest of the loop body, then either
\* the next request or the end of the load
PageArrives(l) ==
    /\ loops[l].pc = "awaiting"
    /\ lastEvent' = Event("page", l)
    /\ UNCHANGED << endpoint, loadsStarted, currentPage, serverVars, evalVars >>
    /\ LET page == endpoint[loops[l].startingAfter] IN
       IF ~OkStatus(page)
       THEN \* throw: the catch and finally blocks of loadConversations
            /\ loops' = [loops EXCEPT ![l].pc = "failed"]
            /\ display' = [display EXCEPT !.errorMessage = ErrorMsg(page),
                                          !.errorState = "block",
                                          !.loadingState = "none"]
            /\ UNCHANGED << allConversations, isLoadingMore, rendered >>
       ELSE LET pageConversations == PageConversations(l, loops[l].startingAfter, page)
                list == AppendPage(allConversations, pageConversations)
                shown == IF Len(pageConversations) > 0
                         THEN Render(list, currentPage, isLoadingMore, rendered)
                         ELSE rendered
                startingAfter == ExtractStartingAfter(page.pages)
                hasMore == HasMore(pageConversations, startingAfter)
            IN  /\ allConversations' = list
                /\ IF LoopContinues(hasMore, loops[l].pageCount)
                   THEN /\ loops' = [loops EXCEPT ![l] =
                               [pc |-> "awaiting", startingAfter |-> startingAfter,
                                pageCount |-> loops[l].pageCount + 1,
                                requested |-> Append(loops[l].requested, startingAfter)]]
                        /\ rendered' = shown
                        /\ display' = [display EXCEPT !.loadingState = "none",
                                                      !.conversationsContainer = "block"]
                        /\ UNCHANGED isLoadingMore
                   ELSE /\ loops' = [loops EXCEPT ![l].pc = "finished",
                                                  ![l].startingAfter = startingAfter]
                        /\ isLoadingMore' = FALSE
                        /\ rendered' = Render(list, currentPage, FALSE, shown)
                        /\ display' = [display EXCEPT !.loadingState = "none",
                                                      !.conversationsContainer = "block"]

\* the page is not checked against the range of pages
goToPageUnchecked(page) ==
    /\ currentPage' = page
    /\ rendered' = Render(allConversations, page, isLoadingMore, rendered)
    /\ display' = [display EXCEPT !.conversationsContainer = "block"]

\* window.goToPage(page): the page and what is rendered afterwards
goToPage(page) ==
    IF page < 1 \/ page > Ceil(Len(allConversations), itemsPerPage)
    THEN UNCHANGED << currentPage, rendered, display >>
    ELSE /\ currentPage' = page
         /\ rendered' = Render(allConversations, page, isLoadingMore, rendered)
         /\ display' = [display EXCEPT !.conversationsContainer = "block"]

\* a click on the button of page p of the pagination
ClickPage(p) ==
    /\ p \in DOMAIN rendered.buttons
    /\ rendered.buttons[p].listener
    /\ goToPage(p)
    /\ lastEvent' = Event("click", p)
    /\ UNCHANGED << endpoint, loops, loadsStarted, allConversations, isLoadingMore,
                    serverVars, evalVars >>

\* a click on paginationPrev
ClickPrev ==
    /\ rendered.buttons # << >>
    /\ ~rendered.prevDisabled
    /\ IF currentPage > 1 THEN goToPage(currentPage - 1)
       ELSE UNCHANGED << currentPage, rendered, display >>
    /\ lastEvent' = Event("prev", 0)
    /\ UNCHANGED << endpoint, loops, loadsStarted, allConversations, isLoadingMore,
                    serverVars, evalVars >>

\* a click on paginationNext
ClickNext ==
    /\ rendered.buttons # << >>
    /\ ~rendered.nextDisabled
    /\ IF currentPage < Ceil(Len(allConversations), itemsPerPage)
       THEN goToPage(currentPage + 1)
       ELSE UNCHANGED << currentPage, rendered, display >>
    /\ lastEvent' = Event("next", 0)
    /\ UNCHANGED << endpoint, loops, loadsStarted, allConversations, isLoadingMore,
                    serverVars, evalVars >>

InitClient ==
    /\ ServerIdle
    /\ EvalIdle
    /\ endpoint \in Endpoints
    /\ loops = [l \in Loads |-> IdleLoop]
    /\ loadsStarted = 0
    /\ allConversations = << >>
    /\ currentPage = 1
    /\ isLoadingMore = FALSE
    /\ display = AllHidden
    /\ rendered = NotRendered
    /\ lastEvent = NoEvent

NextClient ==
    \/ LoadConversations
    \/ \E l \in Loads : PageArrives(l)
    \/ \E p \in DOMAIN rendered.buttons : ClickPage(p)
    \/ ClickPrev
    \/ ClickNext

SpecClient == InitClient /\ [][NextClient]_vars

\* every request of the page is answered
SpecClientLive == SpecClient /\ \A l \in Loads : WF_vars(PageArrives(l))

(***************************************************************************)
(* Properties of the request handler (checked under Spec)                  *)
(***************************************************************************)
Responded == pc = "done" /\ response.kind \in { "empty", "full" }

\* the loop ended on the time budget, before the batch at offset i was started
StoppedEarly == pc = "done" /\ response.kind = "full" /\ i < Len(conversationIds)

\* the candidates of the batches that were started
Started == SubSeq(conversationIds, 1, IF i < Len(conversationIds) THEN i
                                      ELSE Len(conversationIds))

RECURSIVE SumPartCounts(_)
SumPartCounts(convs) ==
    IF convs = << >> THEN 0
    ELSE Head(convs).participation_part_count + SumPartCounts(Tail(convs))

\* what the evaluator says of the conversation upstream holds under id
Participation(id) ==
    hasAdminParticipation(UpstreamConversation(id), Str(req.admin_id), since, before)

FailedIn(ids) == { k \in DOMAIN ids : ids[k] \in failing }
FetchedIn(ids) == { k \in DOMAIN ids : ids[k] \notin failing }

RECURSIVE ExpectedConversations(_)
ExpectedConversations(ids) ==
    IF ids = << >> THEN << >>
    ELSE LET id == Head(ids)
         IN  (IF id \notin failing /\ Participation(id).hasParticipation
              THEN << [id |-> id,
                       participation_part_count |-> Participation(id).partCount] >>
              ELSE << >>)
             \o ExpectedConversations(Tail(ids))

\* C1: whenever the batch loop stops early on the time budget, the response has
\* has_more = true: a partial result is never returned with has_more = false.
C1_EarlyStopHasMore == StoppedEarly => response.has_more

\* C2: in every conversations response participation_count is the sum of the
\* participation_part_count of the returned conversations, and total_count is the
\* number of returned conversations.
C2_CountsAreSums ==
    Responded =>
        /\ response.participation_count = SumPartCounts(response.conversations)
        /\ response.total_count = Len(response.conversations)

\* a response after an early stop, with failed, non-matching and matching
\* conversations, one of them with more than one part
C2_Witness ==
    /\ StoppedEarly
    /\ response.error_count > 0
    /\ response.processed_count > response.total_count
    /\ response.total_count >= 2
    /\ response.participation_count > response.total_count

\* C3: every returned conversation was fetched for a candidate id that discovery
\* returned for this request, at most MAX_CONVERSATIONS candidates are fetched, and
\* no more conversations are returned than discovery returned candidates.
C3_ResultsWithinCandidates ==
    /\ fetchesIssued <= MAX_CONVERSATIONS
    /\ Responded =>
          /\ \A k \in DOMAIN response.conversations :
                \E j \in DOMAIN upstreamSearch.conversations :
                    /\ j <= fetchesIssued
                    /\ upstreamSearch.conversations[j] = response.conversations[k].id
          /\ response.processed_count + response.error_count <= MAX_CONVERSATIONS
          /\ Len(response.conversations) <= Len(upstreamSearch.conversations)

\* discovery returned more than MAX_CONVERSATIONS candidates and the loop ran to its end
C3_Witness ==
    /\ Responded
    /\ Len(upstreamSearch.conversations) > MAX_CONVERSATIONS
    /\ response.processed_count + response.error_count = MAX_CONVERSATIONS
    /\ Len(response.conversations) > 0

\* C4: a failed fetch settles with null, adds one to error_count and is left out of
\* the results; the other members of its batch and the later batches are still
\* evaluated and returned, and the request succeeds.
C4_FailureIsolation ==
    /\ pc = "fetching" =>
          \A k \in DOMAIN batchResults :
              batchResults[k].state # "pending" =>
                  (batchResults[k].state = "null" <=> conversationIds[i + k] \in failing)
    /\ Responded =>
          /\ response.status = 200
          /\ response.error_count = Cardinality(FailedIn(Started))
          /\ response.conversations = ExpectedConversations(Started)

\* the first fetch of the first batch failed; a later member of that batch and a
\* member of the second batch are in the results
C4_Witness ==
    /\ Responded
    /\ Len(conversationIds) = BATCH_SIZE + 1
    /\ i >= Len(conversationIds)
    /\ conversationIds[1] \in failing
    /\ conversationIds[BATCH_SIZE + 1] \notin failing
    /\ response.conversations # << >>
    /\ response.conversations[Len(response.conversations)].id
           = conversationIds[BATCH_SIZE + 1]
    /\ Len(response.conversations) >= 2

\* C5: processed_count is the number of successful fetches (matching or not),
\* error_count the number of failed ones, their sum the number of candidates in the
\* batches that were started (all candidates without an early stop), and
\* total_count <= processed_count.
C5_CounterAccounting ==
    (pc = "done" /\ response.kind = "full") =>
        /\ response.processed_count = Cardinality(FetchedIn(Started))
        /\ response.error_count = Cardinality(FailedIn(Started))
        /\ response.processed_count + response.error_count = Len(Started)
        /\ Len(Started) = fetchesIssued
        /\ ~StoppedEarly => Len(Started) = Len(conversationIds)
        /\ response.total_count <= response.processed_count
        /\ response.processed_count - response.total_count
              = Cardinality({ k \in FetchedIn(Started) :
                                 ~Participation(Started[k]).hasParticipation })

\* a conversation was fetched and had no qualifying part, another one failed
C5_Witness ==
    /\ pc = "done" /\ response.kind = "full"
    /\ response.processed_count > response.total_count
    /\ response.total_count > 0
    /\ response.error_count > 0

\* C10: when discovery returns no candidate, the response is a success with
\* conversations = [], total_count = 0, has_more = false, participation_count = 0,
\* and no conversation fetch is issued.
C10_ZeroCandidates ==
    (pc = "done" /\ response.kind # "error" /\ upstreamSearch.conversations = << >>) =>
        /\ response.status = 200
        /\ response.conversations = << >>
        /\ response.total_count = 0
        /\ response.has_more = FALSE
        /\ response.participation_count = 0
        /\ fetchesIssued = 0

\* no candidate, although upstream announces a next page
C10_Witness ==
    /\ pc = "done" /\ response.kind = "empty"
    /\ upstreamSearch.conversations = << >>
    /\ ExtractCursor(upstreamSearch.next) # ""

\* the search was answered with a status outside 200-299
SearchFailed == searchResponse # NotReceived /\ ~Ok(searchResponse)

\* C11: a search answered with a non-2xx status ends the request with a non-2xx
\* response whose body is an error message holding the upstream status and the
\* upstream body text; no conversation was fetched, no conversation is returned,
\* and the search was sent once.
C11_DiscoveryFailureFatal ==
    SearchFailed =>
        /\ pc = "done"
        /\ response.kind = "error"
        /\ ~(response.status >= 200 /\ response.status <= 299)
        /\ Len(response.error) = 4
        /\ response.error[2] = NumToString(searchResponse.status)
        /\ response.error[4] = searchResponse.text
        /\ response.conversations = << >>
        /\ fetchesIssued = 0
        /\ searchesIssued = 1

\* the search was rejected with 429 and a body text
C11_Witness ==
    /\ SearchFailed
    /\ searchResponse.status = 429
    /\ searchResponse.text = "rate limit exceeded"
    /\ response.kind = "error"

\* C12: no two entries of a response's conversations list have the same id,
\* whatever candidate list the search returned.
C12_NoDuplicateIds ==
    Responded =>
        \A j, k \in DOMAIN response.conversations :
            j # k => response.conversations[j].id # response.conversations[k].id

\* C13: the conversations of a response are ordered by participation_part_count,
\* non-increasing, whatever the order of the candidates.
C13_ParticipationRanked ==
    Responded =>
        \A j, k \in DOMAIN response.conversations :
            j < k => response.conversations[j].participation_part_count
                       >= response.conversations[k].participation_part_count

(***************************************************************************)
(* Properties of the evaluator (checked under SpecEval)                    *)
(***************************************************************************)
EvParts == ExtractParts(evIn.conversation)

\* the timestamp of a part in whole seconds as the design states it: a number below
\* 10,000,000,000 is seconds, a larger one milliseconds; a date string is parsed
Normalized(created_at) ==
    CASE created_at.t = "num" ->
           IF BigLt(created_at.v, Big(MS_THRESHOLD_HI, 0)) THEN Some(created_at.v)
           ELSE Some(BigDiv1000(created_at.v))
      [] created_at.t = "date" -> Some(BigDiv1000(created_at.v))
      [] OTHER -> Null

InWindow(created_at, lo, hi) ==
    LET n == Normalized(created_at)
    IN  ~n.isNull /\ BigLe(ToBig(lo), n.v) /\ BigLe(n.v, ToBig(hi))

StampedAt(created_at, second) ==
    LET n == Normalized(created_at)
    IN  ~n.isNull /\ n.v = ToBig(second)

IsAdminPart(part) == part.author.present /\ part.author.type = "admin"

\* the author id of the part is the target admin id, as the evaluator compares them
IdMatches(part, adminId) ==
    /\ part.author.present
    /\ Truthy(part.author.id)
    /\ IsTargetAdmin(JSString(part.author.id), adminId)

Qualifies(part) ==
    /\ IsAdminPart(part)
    /\ IdMatches(part, evIn.adminId)
    /\ InWindow(part.created_at, evIn.startTimestamp, evIn.endTimestamp)

\* C6: a part is counted if and only if its author type is "admin", its author id
\* matches the target admin id and its normalized timestamp is in the window;
\* partCount is the number of such parts, hasParticipation is partCount > 0, and a
\* part of another author type is never counted, whatever its author id.
C6_CountingRule ==
    evOut.done =>
        /\ evOut.partCount = Cardinality({ k \in DOMAIN EvParts : Qualifies(EvParts[k]) })
        /\ evOut.hasParticipation = (evOut.partCount > 0)
        /\ (\A k \in DOMAIN EvParts : ~IsAdminPart(EvParts[k])) => evOut.partCount = 0

\* two parts with the id of the target admin in the window, one of an admin and one
\* of a bot: only the admin's is counted
C6_Witness ==
    /\ evOut.done
    /\ Len(EvParts) = 2
    /\ evOut.partCount = 1
    /\ \E k \in DOMAIN EvParts :
          /\ EvParts[k].author.present
          /\ EvParts[k].author.type = "bot"
          /\ IdMatches(EvParts[k], evIn.adminId)
          /\ InWindow(EvParts[k].created_at, evIn.startTimestamp, evIn.endTimestamp)

\* C7: the window is inclusive on both ends and never exceeded: no more parts are
\* counted than lie in [since, before]; a part of the target admin stamped exactly
\* at since or at before counts, one stamped one second after before or one second
\* before since does not; a conversation whose admin-authored parts all lie outside
\* the window has a part count of 0 and no participation.
C7_InclusiveWindow ==
    evOut.done =>
        /\ evOut.partCount <=
              Cardinality({ k \in DOMAIN EvParts :
                              InWindow(EvParts[k].created_at,
                                       evIn.startTimestamp, evIn.endTimestamp) })
        /\ \A k \in DOMAIN EvParts :
              (/\ Len(EvParts) = 1
               /\ IsAdminPart(EvParts[k])
               /\ IdMatches(EvParts[k], evIn.adminId)) =>
                  /\ (\/ StampedAt(EvParts[k].created_at, evIn.startTimestamp)
                      \/ StampedAt(EvParts[k].created_at, evIn.endTimestamp))
                        => evOut.partCount = 1
                  /\ (\/ StampedAt(EvParts[k].created_at, evIn.startTimestamp - 1)
                      \/ StampedAt(EvParts[k].created_at, evIn.endTimestamp + 1))
                        => evOut.partCount = 0
        /\ (\A k \in DOMAIN EvParts :
               IsAdminPart(EvParts[k]) =>
                   ~InWindow(EvParts[k].created_at, evIn.startTimestamp, evIn.endTimestamp))
              => (evOut.partCount = 0 /\ ~evOut.hasParticipation)

\* a part of the target admin stamped exactly at before is counted
C7_Witness ==
    /\ evOut.done
    /\ Len(EvParts) = 1
    /\ EvParts[1].created_at = TsNum(ToBig(evIn.endTimestamp))
    /\ evOut.partCount = 1

\* s consists of decimal digits only
IsDecimal(s) == s # << >> /\ \A k \in DOMAIN s : IsDigit(s[k])

\* the two ids are equal as strings, or both are numbers and equal as numbers
SameIdentifier(a, b) ==
    \/ JSString(a) = JSString(b)
    \/ /\ IsDecimal(JSString(a))
       /\ IsDecimal(JSString(b))
       /\ parseInt(JSString(a)).v = parseInt(JSString(b)).v

\* C8: the author id of a part matches the target admin id when the two are equal
\* as strings or as numbers, and two different identifiers are never treated as the
\* same admin: an admin part in the window is counted exactly when its author id is
\* the identifier of the target admin.
C8_SameIdentifierOnly ==
    (/\ evOut.done
     /\ Len(EvParts) = 1
     /\ IsAdminPart(EvParts[1])
     /\ Truthy(EvParts[1].author.id)
     /\ InWindow(EvParts[1].created_at, evIn.startTimestamp, evIn.endTimestamp)) =>
        (evOut.partCount = 1 <=> SameIdentifier(EvParts[1].author.id, evIn.adminId))

\* the conversation holds one part stamped s (a number) and one stamped 1000 * s
IsSecondsAndMillis ==
    /\ Len(EvParts) = 2
    /\ EvParts[1].created_at.t = "num"
    /\ EvParts[1].created_at.v.hi < MS_THRESHOLD_HI
    /\ EvParts[1].created_at.v # Big(0, 0)
    /\ EvParts[2] = [EvParts[1] EXCEPT
                        !.created_at = TsNum(BigTimes1000(EvParts[1].created_at.v))]

\* both parts are normalized to the second s, and both or none are counted
SameSecond ==
    /\ PartTimestamp(EvParts[1].created_at) = Some(EvParts[1].created_at.v)
    /\ PartTimestamp(EvParts[2].created_at) = Some(EvParts[1].created_at.v)
    /\ evOut.partCount \in { 0, 2 }

\* C9 as stated: a seconds value s and the milliseconds value 1000 * s normalize to
\* the same second and get the same in-window verdict.
C9_SecondsAndMillisAgree ==
    (evOut.done /\ IsSecondsAndMillis) => SameSecond

\* C9 as amended: a seconds value s with 10,000,000 <= s < 10,000,000,000 and the
\* milliseconds value 1000 * s normalize to the same second and get the same
\* in-window verdict.
C9_SecondsAndMillisAgreeFrom1e7 ==
    (evOut.done /\ IsSecondsAndMillis /\ EvParts[1].created_at.v.hi >= 10) => SameSecond

\* a part stamped at since in seconds and its twin in milliseconds are both counted
C9_Witness ==
    /\ evOut.done
    /\ IsSecondsAndMillis
    /\ EvParts[1].created_at.v = ToBig(evIn.startTimestamp)
    /\ evOut.partCount = 2

\* a part with no author, no author id or no usable created_at
Malformed(part) ==
    \/ ~part.author.present
    \/ part.author.id \in { Undef, Num(0), Str(<< >>) }
    \/ part.created_at.t \in { "undef", "bad" }
    \/ part.created_at = TsNum(Big(0, 0))

WellFormedParts == SelectSeq(EvParts, LAMBDA p : ~Malformed(p))

\* C24: a part with no author, no author id or no usable created_at is skipped on
\* its own: it is never counted, and the result is the one the evaluator gives for
\* the same conversation with the malformed parts removed, the count of the
\* remaining parts that qualify.
C24_MalformedPartIsolation ==
    evOut.done =>
        LET without == hasAdminParticipation(Conversation(1, CpArray(WellFormedParts)),
                                             evIn.adminId, evIn.startTimestamp,
                                             evIn.endTimestamp)
        IN  /\ evOut.partCount =
                  Cardinality({ k \in DOMAIN EvParts :
                                  ~Malformed(EvParts[k]) /\ Qualifies(EvParts[k]) })
            /\ evOut.partCount = without.partCount
            /\ evOut.hasParticipation = without.hasParticipation
            /\ evOut.partCount <= Len(WellFormedParts)

\* a malformed part comes first and the part after it is still counted
C24_Witness ==
    /\ evOut.done
    /\ Len(EvParts) = 2
    /\ Malformed(EvParts[1])
    /\ ~Malformed(EvParts[2])
    /\ evOut.partCount = 1
    /\ evOut.hasParticipation

\* the list of parts a conversation carries in one of the three documented shapes
EvShape == evIn.conversation.conversation_parts
IsFlat == EvShape.kind = "array"
IsWrappedConversationParts ==
    EvShape.kind = "object" /\ EvShape.cp.present /\ ~EvShape.parts.present
IsWrappedParts ==
    EvShape.kind = "object" /\ ~EvShape.cp.present /\ EvShape.parts.present
HasNoCollection ==
    EvShape.kind = "undef"
    \/ (EvShape.kind = "object" /\ ~EvShape.cp.present /\ ~EvShape.parts.present)
Carried ==
    CASE IsFlat -> EvShape.items
      [] IsWrappedConversationParts -> EvShape.cp.items
      [] IsWrappedParts -> EvShape.parts.items
      [] OTHER -> << >>

\* C25: the evaluator returns the same result for a list of parts whether it comes
\* as a flat array, under conversation_parts.conversation_parts or under
\* conversation_parts.parts: the count of the parts of the list that qualify; with
\* no parts collection or an unrecognized shape the count is 0.
C25_ShapeIndependence ==
    evOut.done =>
        /\ (IsFlat \/ IsWrappedConversationParts \/ IsWrappedParts) =>
              /\ evOut.partCount =
                    Cardinality({ k \in DOMAIN Carried : Qualifies(Carried[k]) })
              /\ evOut.hasParticipation = (evOut.partCount > 0)
        /\ HasNoCollection =>
              /\ evOut.partCount = 0
              /\ ~evOut.hasParticipation

\* two parts wrapped under conversation_parts.parts, both counted
C25_Witness ==
    /\ evOut.done
    /\ IsWrappedParts
    /\ Len(Carried) = 2
    /\ evOut.partCount = 2

\* the number of candidates whose fetch has settled and was evaluated
Evaluated == processedCount + errorCount

\* C22: the candidates are fetched in batches of BATCH_SIZE (10) taken in order,
\* the last one possibly shorter; the fetches of a batch are issued together, and
\* only after every candidate before the batch has settled and been evaluated; at
\* no time are more than 10 fetches in flight.
C22_BatchSequencing ==
    /\ Cardinality(inflight) <= BATCH_SIZE
    /\ pc = "fetching" =>
         /\ i % BATCH_SIZE = 0
         /\ i < Len(conversationIds)
         /\ DOMAIN batchResults = 1..Min({ BATCH_SIZE, Len(conversationIds) - i })
         /\ fetchesIssued = i + Len(batchResults)
         /\ Evaluated = i
         /\ \A k \in DOMAIN batchResults :
              /\ k \in inflight <=> batchResults[k].state = "pending"
              /\ batchResults[k].state = "data" =>
                   batchResults[k].data.id = conversationIds[i + k]
    /\ pc \in { "delay", "done" } =>
         /\ inflight = {}
         /\ Evaluated = fetchesIssued

\* the fifteenth batch of a list of 150 candidates is in flight, none settled yet
C22_Witness ==
    /\ pc = "fetching"
    /\ Len(conversationIds) = MAX_CONVERSATIONS
    /\ i = MAX_CONVERSATIONS - BATCH_SIZE
    /\ Cardinality(inflight) = BATCH_SIZE
    /\ Evaluated = i

\* more than EDGE_FUNCTION_TIMEOUT - 5000 ms have elapsed at time t
BudgetPassed(t) == t > EDGE_FUNCTION_TIMEOUT - TIMEOUT_BUFFER

\* C23: a batch is started only while the budget has not passed; a batch that
\* was started is left only when all its fetches have settled and all of them are
\* evaluated and counted, whatever the elapsed time; and the loop ends before the
\* last candidate only when the budget has passed.
C23_CooperativeBudget ==
    /\ [][/\ fetchesIssued' > fetchesIssued => ~BudgetPassed(clock')
          /\ (pc = "fetching" /\ inflight # {}) => pc' = "fetching"
          /\ (pc = "fetching" /\ pc' # "fetching") =>
                /\ inflight = {}
                /\ processedCount' + errorCount' = fetchesIssued]_vars
    /\ [](StoppedEarly => BudgetPassed(clock))

\* the budget passed while the only batch was in flight; both of its
\* candidates were evaluated and one is in the response
C23_Witness ==
    /\ pc = "done" /\ response.kind = "full"
    /\ BudgetPassed(clock)
    /\ Len(conversationIds) = 2
    /\ fetchesIssued = 2
    /\ Evaluated = 2
    /\ Len(response.conversations) >= 1

\* C19: a response sent after the batch loop, to a search whose pages.next holds
\* a next-page token (a bare string, a URL with starting_after, or an object
\* with starting_after or cursor), has a next_cursor and has_more = true.
C19_CursorExtracted ==
    (pc = "done" /\ response.kind = "full" /\ upstreamSearch.next.kind # "undef") =>
        /\ response.next_cursor # ""
        /\ response.has_more

\* C20: once the search was sent, the window it was sent with has since < before,
\* however the request supplied it.
C20_WindowOrdered ==
    searchesIssued > 0 => since < before

\* C28: the conversations of a response are the matching candidates in the order
\* of the candidate list, batch by batch and position by position, and the whole
\* response is a function of the request, the search result and the outcome of
\* each fetch: the order in which the fetches of a batch complete has no part in it.
C28_DeterministicOrder ==
    (pc = "done" /\ response.kind = "full") =>
        LET expected == ExpectedConversations(Started)
            cursor == ExtractCursor(upstreamSearch.next)
        IN  /\ \A k \in DOMAIN response.conversations :
                  response.conversations[k] = expected[k]
            /\ response =
                  FullResponse(expected, cursor # "", cursor,
                               ApplyMaxLimit(upstreamSearch.conversations),
                               SumPartCounts(expected),
                               Cardinality(FetchedIn(Started)),
                               Cardinality(FailedIn(Started)))

\* the fetches of a batch completed last to first, and two matching conversations
\* of the batch are returned in the order of the candidate list
C28_Witness ==
    /\ pc = "done" /\ response.kind = "full"
    /\ order = "desc"
    /\ conversationIds = << 1, 3 >>
    /\ fetchesIssued = 2
    /\ Len(response.conversations) = 2
    /\ response.conversations[1].id = 1
    /\ response.conversations[2].id = 3

\* C26: a response sent after the batch loop with has_more = true carries a
\* next_cursor, so that the documented loop (continue while has_more, passing
\* next_cursor as starting_after) asks for a new page.
C26_CursorConsistency ==
    (pc = "done" /\ response.kind = "full" /\ response.has_more) =>
        response.next_cursor # ""

(***************************************************************************)
(* Properties of the window (checked under SpecWindow)                     *)
(***************************************************************************)
\* the days from 1970-01-01 to the date y-m-d, counted year by year and month by month
RECURSIVE DaysBeforeYear(_)
DaysBeforeYear(y) ==
    IF y <= 1970 THEN 0
    ELSE DaysBeforeYear(y - 1) + (IF IsLeap(y - 1) THEN 366 ELSE 365)
RECURSIVE DaysBeforeMonth(_, _)
DaysBeforeMonth(y, m) ==
    IF m <= 1 THEN 0 ELSE DaysBeforeMonth(y, m - 1) + DaysInMonth(y, m - 1)
DayNumber(date) == DaysBeforeYear(date[1]) + DaysBeforeMonth(date[1], date[2]) + date[3] - 1

\* the search was sent for a request with updated_date
SentWithDate == pc = "search" /\ req.updated_date # NoDate

\* the window of every date: since is 00:00:00 UTC of the date, a multiple of
\* 86400, and before = since + 86399
UTCDayWindow ==
    SentWithDate =>
        /\ since % 86400 = 0
        /\ before = since + 86399
        /\ \A date \in WindowDates :
             req.updated_date = DateStr(date[1], date[2], date[3]) =>
                 since = DayNumber(date) * 86400

Awaiting(l) == loops[l].pc = "awaiting"
Ended(l) == loops[l].pc \in { "finished", "failed" }

\* the response that load l is waiting for
Awaited(l) == endpoint[loops[l].startingAfter]

\* pages holds no cursor: no pages, no next, a next that is neither a string nor an
\* object, a URL whose query string has no starting_after or an empty one, or an
\* object without starting_after and cursor
NoExtractableCursor(pages) ==
    \/ ~pages.present
    \/ pages.next.kind \in { "undef", "number" }
    \/ /\ pages.next.kind = "string"
       /\ \/ pages.next.text = << >>
          \/ /\ Includes(pages.next.text, "?")
             /\ ~\E k \in DOMAIN pages.next.text :
                    /\ pages.next.text[k] = "starting_after"
                    /\ k + 2 <= Len(pages.next.text)
                    /\ pages.next.text[k + 1] = "="
    \/ /\ pages.next.kind = "object"
       /\ pages.next.starting_after = NoCursor
       /\ pages.next.cursor = NoCursor

\* load l takes a step on a successful response without an extractable cursor
ArrivesWithoutCursor(l) ==
    /\ Awaiting(l)
    /\ loops'[l] # loops[l]
    /\ OkStatus(Awaited(l))
    /\ NoExtractableCursor(Awaited(l).pages)

CarriedCursor(pages) ==
    IF NoExtractableCursor(pages) THEN NoCursor
    ELSE IF pages.next.kind = "object"
         THEN IF pages.next.starting_after # NoCursor THEN pages.next.starting_after
              ELSE pages.next.cursor
         ELSE IF Includes(pages.next.text, "?")
              THEN LET k == CHOOSE k \in DOMAIN pages.next.text :
                                /\ pages.next.text[k] = "starting_after"
                                /\ k + 2 <= Len(pages.next.text)
                                /\ pages.next.text[k + 1] = "="
                   IN  << pages.next.text[k + 2] >>
              ELSE pages.next.text

\* the cursors of the requests that walk the endpoint from its first page on, as
\* long as the pages are successful and not empty; at most n requests
RECURSIVE Walk(_, _, _)
Walk(ep, c, n) ==
    IF n = 0 \/ ~OkStatus(ep[c]) \/ ep[c].count = 0 THEN << >>
    ELSE IF CarriedCursor(ep[c].pages) = NoCursor THEN << c >>
    ELSE << c >> \o Walk(ep, CarriedCursor(ep[c].pages), n - 1)

\* the pages of the endpoint are not empty and all but the last carry a cursor
WellPaged(ep) ==
    LET w == Walk(ep, NoCursor, Cardinality(Cursors))
    IN  /\ w # << >>
        /\ OkStatus(ep[w[Len(w)]])
        /\ ep[w[Len(w)]].count > 0
        /\ CarriedCursor(ep[w[Len(w)]].pages) = NoCursor

\* the conversations of the pages requested with the cursors cs, in this order
RECURSIVE ConcatPages(_, _, _)
ConcatPages(l, ep, cs) ==
    IF cs = << >> THEN << >>
    ELSE PageConversations(l, Head(cs), ep[Head(cs)]) \o ConcatPages(l, ep, Tail(cs))

IsPrefix(s, t) == Len(s) <= Len(t) /\ s = SubSeq(t, 1, Len(s))

\* C15: a single load against pages that are not empty and of which all but the
\* last carry a cursor requests every page with the cursor of the response before
\* it, holds the pages received so far in page order while it waits, and finishes
\* only after the last page, with the concatenation of all pages in page order.
C15_LoaderAccumulates ==
    (loadsStarted = 1 /\ WellPaged(endpoint)) =>
        LET w == Walk(endpoint, NoCursor, Cardinality(Cursors))
            asked == loops[1].requested
        IN  /\ IsPrefix(asked, w)
            /\ loops[1].pc # "failed"
            /\ Awaiting(1) =>
                 allConversations = ConcatPages(1, endpoint, SubSeq(asked, 1, Len(asked) - 1))
            /\ loops[1].pc = "finished" =>
                 /\ asked = w
                 /\ allConversations = ConcatPages(1, endpoint, w)

\* the pages of 45, 45 and 10 conversations were loaded: 100 rows
C15_Witness ==
    /\ loadsStarted = 1
    /\ endpoint = Pages45_45_10
    /\ loops[1].pc = "finished"
    /\ loops[1].requested = << NoCursor, CursorC1, CursorC2 >>
    /\ Len(allConversations) = 100

\* load l takes a step on a successful response
ArrivesOk(l) == Awaiting(l) /\ loops'[l] # loops[l] /\ OkStatus(Awaited(l))

\* C16: the start of a fresh load empties the shared list and sets the current page
\* to 1 but leaves every earlier loop as it is, still awaiting its response; and
\* the page that any loop receives, the loop of an earlier load included, is
\* appended to the shared list.
C16_ReentrantLoad ==
    [][/\ loadsStarted' = loadsStarted + 1 =>
            /\ allConversations' = << >>
            /\ currentPage' = 1
            /\ \A l \in 1..loadsStarted : loops'[l] = loops[l]
       /\ \A l \in Loads :
            ArrivesOk(l) =>
                allConversations' =
                    allConversations
                        \o PageConversations(l, loops[l].startingAfter, Awaited(l))]_vars

\* after the second load started, the list holds its conversations and, behind
\* them, conversations that the first load received later
C16_Witness ==
    /\ loadsStarted = 2
    /\ loops[1].pc = "finished"
    /\ \E j, k \in DOMAIN allConversations :
         /\ j < k
         /\ allConversations[j][1] = 2
         /\ allConversations[k][1] = 1

\* the pages whose rows were in the list at the last render
RenderedReady == Ceil(rendered.total, itemsPerPage)

\* C17: in a render made while a load is in progress, every button beyond the
\* pages that are ready and within the pages shown carries the loading indicator
\* (the third state, neither ready nor plainly disabled).
C17_LoadingStateShown ==
    (rendered.pagination = "flex" /\ rendered.plus) =>
        \A p \in DOMAIN rendered.buttons :
            p > RenderedReady => rendered.buttons[p].title = "Loading..."

\* the button of page p is enabled and has its click listener
ButtonReady(p) == ~rendered.buttons[p].disabled /\ rendered.buttons[p].listener
ButtonDisabled(p) == rendered.buttons[p].disabled /\ ~rendered.buttons[p].listener

\* C18: in every render, there is a button for every page that has rows, the
\* button of page p is ready exactly when p <= ceil(rows / 20) and disabled
\* otherwise, whether or not a load is in progress; and a click on the button of a
\* page that has rows makes this page the current page.
C18_ReadyState ==
    /\ rendered.pagination = "flex" =>
         /\ Len(rendered.buttons) >= RenderedReady
         /\ \A p \in DOMAIN rendered.buttons :
              /\ ButtonReady(p) <=> p <= RenderedReady
              /\ p > RenderedReady => ButtonDisabled(p)
    /\ (lastEvent.type = "click"
          /\ lastEvent.arg <= Ceil(Len(allConversations), itemsPerPage)) =>
         /\ currentPage = lastEvent.arg
         /\ rendered.buttons[lastEvent.arg].active

\* 60 rows are in the list, the next page is awaited, and the click on the button
\* of page 3 has made it the current page
C18_Witness ==
    /\ Len(allConversations) = 60
    /\ Awaiting(1)
    /\ isLoadingMore
    /\ rendered.total = 60
    /\ ButtonReady(3)
    /\ ButtonDisabled(4)
    /\ lastEvent = Event("click", 3)
    /\ currentPage = 3

\* C27: isLoadingMore is true exactly while a loader loop is in flight: it is false
\* once every load has ended, by completing or by an error on some page, and it is
\* true as long as some load is still fetching.
C27_LoadingFlag ==
    isLoadingMore <=> \E l \in Loads : Awaiting(l)

\* the page that load l awaits is answered with no conversations
ArrivesEmpty(l) ==
    /\ Awaiting(l)
    /\ lastEvent' = Event("page", l)
    /\ OkStatus(Awaited(l))
    /\ Awaited(l).count = 0

\* C29: when a page holds no conversations the loader stops at once and requests
\* no further page, whether or not the page carries a cursor; a load that has
\* ended requests nothing more, so every request of a load but its last one was
\* answered with a page that holds conversations.
C29_EmptyPageEndsLoad ==
    /\ [][\A l \in Loads :
            /\ ArrivesEmpty(l) =>
                  /\ loops'[l].pc = "finished"
                  /\ loops'[l].requested = loops[l].requested
                  /\ allConversations' = allConversations
            /\ Ended(l) => loops'[l] = loops[l]]_vars
    /\ [](\A l \in Loads :
            \A k \in 1..(Len(loops[l].requested) - 1) :
                endpoint[loops[l].requested[k]].count > 0)

\* the second page was empty and carried the cursor c2: the load ended after two
\* requests, and the ten conversations behind c2 were never requested
C29_Witness ==
    /\ endpoint = Pages20_0_10
    /\ loops[1].pc = "finished"
    /\ loops[1].requested = << NoCursor, CursorC1 >>
    /\ loops[1].startingAfter = CursorC2
    /\ Len(allConversations) = 20
    /\ endpoint[CursorC2].count = 10

\* rows (currentPage - 1) * 20 + 1 .. min(currentPage * 20, rows) of the list
CurrentRows ==
    SubSeq(allConversations, (currentPage - 1) * itemsPerPage + 1,
           Min({ currentPage * itemsPerPage, Len(allConversations) }))

\* C30: currentPage >= 1 always, and currentPage <= ceil(rows / 20) when the list
\* is not empty; goToPage with a page outside 1 .. ceil(rows / 20) leaves
\* currentPage unchanged; every render draws the rows of the current page, and
\* the rows on display are rows (currentPage - 1) * 20 + 1 ..
\* min(currentPage * 20, rows) of the list.
C30_CurrentPageInvariant ==
    /\ [](currentPage >= 1)
    /\ [](Len(allConversations) > 0 =>
            currentPage <= Ceil(Len(allConversations), itemsPerPage))
    /\ [][(lastEvent'.type = "click"
             /\ lastEvent'.arg > Ceil(Len(allConversations), itemsPerPage))
            => currentPage' = currentPage]_vars
    /\ [][rendered' # rendered => rendered'.rows = CurrentRows']_vars
    /\ [](display.conversationsContainer = "block" => rendered.rows = CurrentRows)

\* in a second load, 21 rows have arrived and a click on next has made page 2 the
\* current page: its only row is row 21
C30_Witness ==
    /\ loadsStarted = 2
    /\ Len(allConversations) = 21
    /\ lastEvent.type = "next"
    /\ currentPage = 2
    /\ display.conversationsContainer = "block"
    /\ rendered.rows = << allConversations[21] >>
    /\ rendered.start = 21
    /\ rendered.end = 21

====
